---- MODULE Spec2Model ----
(***************************************************************************)
(* Model of the Study Coach progress store (src/src/memory.py, JsonMemory) *)
(* and of the two front-ends that drive it (src/app.py, src/src/main.py).  *)
(*                                                                         *)
(* The persisted file progress.json is the variable `file`.  A prompt is a *)
(* sequence of characters, so that question_id really normalises it.  The  *)
(* truncated SHA-256 of question_id is taken to be collision free on the   *)
(* prompts of the model: the id is the normalised text itself.             *)
(* json.dumps followed by json.loads maps every document of the model      *)
(* (strings, integers, booleans, null, lists, dicts with insertion order)  *)
(* to itself, so _write stores the document and _read returns it.          *)
(***************************************************************************)
EXTENDS Integers, Sequences, FiniteSets, TLC

VARIABLES
    file,    \* the content of progress.json
    inst,    \* a JsonMemory has been constructed
    clock,   \* datetime.utcnow(), counted in calls that read it
    ret,     \* the outcome of the last call on the store
    conc,    \* two front-ends inside their read-modify-write cycles
    ui,      \* st.session_state of the Streamlit front-end
    cli      \* the locals of the command-line front-end

storeVars == <<file, inst, clock, ret>>

frontVars == <<conc, ui, cli>>

vars == <<file, inst, clock, ret, conc, ui, cli>>

(***************************************************************************)
(* Bounds and input sets                                                   *)
(***************************************************************************)
\* number of log_attempt / log_session calls explored
MaxCalls == 3

\* Python None for an optional response_ms / a missing average
None == -1
\* a response_ms that int() cannot convert (for instance the string "abc")
BadMs == -2

Topics == {"T1", "T2"}
\* no topic given to get_excluded_prompts
NoTopic == "None"

PromptA == <<"a">>
PromptA2 == <<" ", "A", " ">>
PromptB == <<"b">>
Prompts == {PromptA, PromptA2, PromptB}

\* graded answers <<student_answer, correct>>
Gradings == {<<"x", TRUE>>, <<"y", FALSE>>}
Scores == {0, 50, 100}

(***************************************************************************)
(* Generic helpers                                                         *)
(***************************************************************************)
Range(s) == {s[i] : i \in 1..Len(s)}

RECURSIVE SumSeq(_)
SumSeq(s) == IF s = <<>> THEN 0 ELSE Head(s) + SumSeq(Tail(s))

\* Python 3 int(round(n / d)) for integers n >= 0, d > 0: round half to even
RoundDiv(n, d) ==
    LET q == n \div d
        r == n % d
    IN  IF 2 * r < d THEN q
        ELSE IF 2 * r > d THEN q + 1
        ELSE IF q % 2 = 0 THEN q ELSE q + 1

(***************************************************************************)
(* The persisted file                                                      *)
(***************************************************************************)
\* a top-level key of the document: absent, of the wrong container type
\* (a JSON string where a list or dict is expected), or a container
Slot(v) == [tag |-> "ok", val |-> v]
Absent == [tag |-> "absent", val |-> <<>>]
Wrong == [tag |-> "wrong", val |-> <<>>]

\* the file does not exist
Missing == [kind |-> "missing", sessions |-> Absent, attempts |-> Absent, questions |-> Absent]
\* the file exists and is not JSON (empty, truncated)
Unparsable == [kind |-> "unparsable", sessions |-> Absent, attempts |-> Absent, questions |-> Absent]
\* the file holds JSON that is not an object (for instance a list)
NotDict == [kind |-> "notdict", sessions |-> Absent, attempts |-> Absent, questions |-> Absent]

Doc(s, a, q) == [kind |-> "dict", sessions |-> s, attempts |-> a, questions |-> q]

\* {"sessions": [], "attempts": [], "questions": {}}
Canonical == Doc(Slot(<<>>), Slot(<<>>), Slot(<<>>))

WellFormed(d) ==
    /\ d.kind = "dict"
    /\ d.sessions.tag = "ok"
    /\ d.attempts.tag = "ok"
    /\ d.questions.tag = "ok"

\* JsonMemory._read: json.loads(read_text()) raises on a missing or unparsable file
ReadRaises(f) == f.kind \in {"missing", "unparsable"}

\* dict.setdefault(key, empty container) on one top-level key
SetDefault(slot) == IF slot.tag = "absent" THEN Slot(<<>>) ELSE slot

(***************************************************************************)
(* JsonMemory.__init__                                                     *)
(***************************************************************************)
\* a bug: only an absent key is filled in, a key of the wrong type is kept
RepairSlot_AbsentOnly(slot) == IF slot.tag = "absent" THEN Slot(<<>>) ELSE slot

RepairSlot(slot) == IF slot.tag = "ok" THEN slot ELSE Slot(<<>>)

\* a bug: any malformed key resets the whole document
ConstructFile_ResetAll(f) ==
    IF f.kind = "dict" /\ f.sessions.tag = "ok" /\ f.attempts.tag = "ok"
       /\ f.questions.tag = "ok"
    THEN f
    ELSE Doc(Slot(<<>>), Slot(<<>>), Slot(<<>>))

\* the document left on disk by the constructor
ConstructFile(f) ==
    IF f.kind = "missing" THEN Canonical
    ELSE IF f.kind = "unparsable" THEN Canonical
    ELSE IF f.kind = "notdict" THEN Canonical
    ELSE Doc(RepairSlot(f.sessions), RepairSlot(f.attempts), RepairSlot(f.questions))

\* whether the constructor writes the file
ConstructWrites(f) == ~WellFormed(f)

(***************************************************************************)
(* JsonMemory.question_id                                                  *)
(***************************************************************************)
IsSpace(c) == c = " "

LowerChar(c) == IF c = "A" THEN "a" ELSE IF c = "B" THEN "b" ELSE c

\* str.lower()
Lower(s) == [i \in 1..Len(s) |-> LowerChar(s[i])]

RECURSIVE LStrip(_)
LStrip(s) == IF s # <<>> /\ IsSpace(Head(s)) THEN LStrip(Tail(s)) ELSE s

RECURSIVE RStrip(_)
RStrip(s) ==
    IF s # <<>> /\ IsSpace(s[Len(s)]) THEN RStrip(SubSeq(s, 1, Len(s) - 1)) ELSE s

\* str.strip()
Strip(s) == RStrip(LStrip(s))

\* str.split(): the maximal runs of non-space characters
RECURSIVE SplitAcc(_, _, _)
SplitAcc(s, cur, acc) ==
    IF s = <<>> THEN (IF cur = <<>> THEN acc ELSE Append(acc, cur))
    ELSE IF IsSpace(Head(s))
         THEN SplitAcc(Tail(s), <<>>, IF cur = <<>> THEN acc ELSE Append(acc, cur))
         ELSE SplitAcc(Tail(s), Append(cur, Head(s)), acc)

Split(s) == SplitAcc(s, <<>>, <<>>)

\* " ".join(words)
RECURSIVE Join(_)
Join(ws) ==
    IF ws = <<>> THEN <<>>
    ELSE IF Len(ws) = 1 THEN ws[1]
    ELSE ws[1] \o <<" ">> \o Join(Tail(ws))

\* a bug: the case is kept
Normalize_CaseSensitive(prompt) == Join(Split(Strip(prompt)))

Normalize(prompt) == Lower(Join(Split(Strip(prompt))))

question_id(prompt) == Normalize(prompt)

(***************************************************************************)
(* JsonMemory.log_session                                                  *)
(***************************************************************************)
SessionRecord(ts, topic, score, details) ==
    [timestamp |-> ts, topic |-> topic, score |-> score, details |-> details]

\* the call on the document as read: whether it raises, and the document it
\* writes back when it does not
\* a bug: the session is written into a fresh document
log_session_Fresh(f, ts, topic, score, details) ==
    [raised |-> ReadRaises(f) \/ f.kind # "dict",
     data |-> IF ReadRaises(f) \/ f.kind # "dict" THEN f
              ELSE Doc(Slot(Append(SetDefault(f.sessions).val,
                                   SessionRecord(ts, topic, score, details))),
                       Slot(<<>>), Slot(<<>>))]

\* a bug: the record is put in front of the earlier ones
log_session_Prepend(f, ts, topic, score, details) ==
    IF ReadRaises(f) \/ f.kind # "dict" \/ f.sessions.tag = "wrong"
    THEN [raised |-> TRUE, data |-> f]
    ELSE [raised |-> FALSE,
          data |-> [f EXCEPT !.sessions =
                      Slot(<<SessionRecord(ts, topic, score, details)>>
                              \o SetDefault(f.sessions).val)]]

log_session(f, ts, topic, score, details) ==
    IF ReadRaises(f) \/ f.kind # "dict" \/ f.sessions.tag = "wrong"
    THEN [raised |-> TRUE, data |-> f]
    ELSE LET s == SetDefault(f.sessions)
         IN  [raised |-> FALSE,
              data |-> [f EXCEPT !.sessions =
                          Slot(Append(s.val, SessionRecord(ts, topic, score, details)))]]

(***************************************************************************)
(* JsonMemory.log_attempt                                                  *)
(***************************************************************************)
\* the topics of the model in Python's string order
TopicOrder == <<"T1", "T2">>

\* sorted(set of topics)
SortedTopics(S) == SelectSeq(TopicOrder, LAMBDA t : t \in S)

AttemptEntry(ts, topic, prompt, student_answer, correct, response_ms) ==
    [timestamp |-> ts, topic |-> topic, question_id |-> question_id(prompt),
     prompt |-> prompt, student_answer |-> student_answer, correct |-> correct,
     response_ms |-> response_ms]

\* position of the aggregate record of qid in the questions dict, 0 if absent
QIndex(qs, qid) ==
    IF \E i \in 1..Len(qs) : qs[i].qid = qid
    THEN CHOOSE i \in 1..Len(qs) : qs[i].qid = qid
    ELSE 0

NewQRec(qid, prompt) ==
    [qid |-> qid, prompt |-> prompt, times_asked |-> 0, last_answer |-> "",
     last_correct |-> FALSE, last_timestamp |-> 0, topics |-> <<>>,
     last_response_ms |-> None, avg_response_ms |-> None]

\* a bug: the quotient is truncated instead of rounded
NewAvg_Truncated(prev_avg, prev_n, ms) ==
    IF prev_avg # None /\ prev_n > 0
    THEN (prev_avg * prev_n + ms) \div (prev_n + 1)
    ELSE ms

\* the running average written when response_ms is supplied
NewAvg(prev_avg, prev_n, ms) ==
    IF prev_avg # None /\ prev_n > 0
    THEN RoundDiv(prev_avg * prev_n + ms, prev_n + 1)
    ELSE ms

\* a bug: the counter of a known question is not incremented
UpdateQRec_NoIncrement(qrec, ts, topic, student_answer, correct, response_ms) ==
    [qrec EXCEPT !.times_asked = IF @ = 0 THEN 1 ELSE @,
                 !.last_answer = student_answer,
                 !.last_correct = correct,
                 !.last_timestamp = ts,
                 !.topics = SortedTopics(Range(qrec.topics) \cup {topic}),
                 !.last_response_ms = IF response_ms # None THEN response_ms ELSE @,
                 !.avg_response_ms = IF response_ms # None THEN response_ms ELSE @]

\* a bug: the answer of a known question is not overwritten
UpdateQRec_StaleAnswer(qrec, ts, topic, student_answer, correct, response_ms) ==
    [qrec EXCEPT !.times_asked = @ + 1,
                 !.last_answer = IF qrec.times_asked = 0 THEN student_answer ELSE @,
                 !.last_correct = correct,
                 !.last_timestamp = ts,
                 !.topics = SortedTopics(Range(qrec.topics) \cup {topic}),
                 !.last_response_ms = IF response_ms # None THEN response_ms ELSE @,
                 !.avg_response_ms =
                     IF response_ms # None
                     THEN NewAvg(qrec.avg_response_ms, qrec.times_asked, response_ms)
                     ELSE @]

\* a bug: the topic replaces the topic set instead of being merged into it
UpdateQRec_TopicsReplaced(qrec, ts, topic, student_answer, correct, response_ms) ==
    [qrec EXCEPT !.times_asked = @ + 1,
                 !.last_answer = student_answer,
                 !.last_correct = correct,
                 !.last_timestamp = ts,
                 !.topics = <<topic>>,
                 !.last_response_ms = IF response_ms # None THEN response_ms ELSE @,
                 !.avg_response_ms =
                     IF response_ms # None
                     THEN NewAvg(qrec.avg_response_ms, qrec.times_asked, response_ms)
                     ELSE @]

UpdateQRec(qrec, ts, topic, student_answer, correct, response_ms) ==
    LET prev_n == qrec.times_asked
        base == [qrec EXCEPT !.times_asked = prev_n + 1,
                             !.last_answer = student_answer,
                             !.last_correct = correct,
                             !.last_timestamp = ts,
                             !.topics = SortedTopics(Range(qrec.topics) \cup {topic})]
    IN  IF response_ms # None
        THEN [base EXCEPT !.last_response_ms = response_ms,
                          !.avg_response_ms = NewAvg(qrec.avg_response_ms, prev_n, response_ms)]
        ELSE base

\* data["questions"][qid] = qrec: in place for a known id, at the end for a new one
PutQRec(qs, qrec) ==
    LET i == QIndex(qs, qrec.qid)
    IN  IF i = 0 THEN Append(qs, qrec) ELSE [qs EXCEPT ![i] = qrec]

\* a bug: the attempt is written before response_ms is converted
log_attempt_WriteThenConvert(f, ts, topic, prompt, student_answer, correct, response_ms) ==
    IF ReadRaises(f) \/ f.kind # "dict" \/ f.attempts.tag = "wrong" \/ f.questions.tag = "wrong"
    THEN [raised |-> TRUE, data |-> f]
    ELSE LET a == SetDefault(f.attempts)
             q == SetDefault(f.questions)
             qid == question_id(prompt)
             i == QIndex(q.val, qid)
             old == IF i = 0 THEN NewQRec(qid, prompt) ELSE q.val[i]
             qrec == UpdateQRec(old, ts, topic, student_answer, correct, response_ms)
         IN  [raised |-> response_ms = BadMs,
              data |-> [f EXCEPT
                 !.attempts = Slot(Append(a.val,
                     AttemptEntry(ts, topic, prompt, student_answer, correct,
                                  IF response_ms = BadMs THEN None ELSE response_ms))),
                 !.questions = IF response_ms = BadMs THEN q
                               ELSE Slot(PutQRec(q.val, qrec))]]

log_attempt(f, ts, topic, prompt, student_answer, correct, response_ms) ==
    IF \/ ReadRaises(f)
       \/ f.kind # "dict"
       \/ response_ms = BadMs
       \/ f.attempts.tag = "wrong"
       \/ f.questions.tag = "wrong"
    THEN [raised |-> TRUE, data |-> f]
    ELSE LET a == SetDefault(f.attempts)
             q == SetDefault(f.questions)
             qid == question_id(prompt)
             i == QIndex(q.val, qid)
             old == IF i = 0 THEN NewQRec(qid, prompt) ELSE q.val[i]
             qrec == UpdateQRec(old, ts, topic, student_answer, correct, response_ms)
         IN  [raised |-> FALSE,
              data |-> [f EXCEPT
                 !.attempts = Slot(Append(a.val,
                     AttemptEntry(ts, topic, prompt, student_answer, correct, response_ms))),
                 !.questions = Slot(PutQRec(q.val, qrec))]]

(***************************************************************************)
(* JsonMemory.get_excluded_prompts                                         *)
(***************************************************************************)
\* a bug: every record matches every topic
topic_match_Always(rec, topic) == TRUE

topic_match(rec, topic) == topic = NoTopic \/ topic \in Range(rec.topics)

ExcludedRaises(f) == ReadRaises(f) \/ f.kind # "dict" \/ f.questions.tag = "wrong"

\* a bug: mode "correct" forgets the topic filter
get_excluded_prompts_NoTopicFilter(f, mode, topic) ==
    LET qs == SetDefault(f.questions).val
        Keep(rec) == IF mode = "correct"
                     THEN rec.last_correct
                     ELSE topic_match(rec, topic)
        kept == SelectSeq(qs, Keep)
    IN  [i \in 1..Len(kept) |-> kept[i].prompt]

\* the list returned when the call does not raise
get_excluded_prompts(f, mode, topic) ==
    LET qs == SetDefault(f.questions).val
        Keep(rec) == IF mode = "correct"
                     THEN rec.last_correct /\ topic_match(rec, topic)
                     ELSE topic_match(rec, topic)
        kept == SelectSeq(qs, Keep)
    IN  [i \in 1..Len(kept) |-> kept[i].prompt]

(***************************************************************************)
(* JsonMemory.get_topic_accuracy / get_adaptive_difficulty                 *)
(***************************************************************************)
\* a bug: the attempts of every topic are taken
TopicAttempts_AllTopics(f, topic) == SetDefault(f.attempts).val

TopicAttempts(f, topic) ==
    SelectSeq(SetDefault(f.attempts).val, LAMBDA a : a.topic = topic)

TopicSessions(f, topic) ==
    SelectSeq(SetDefault(f.sessions).val, LAMBDA s : s.topic = topic)

AccuracyRaises(f, topic) ==
    \/ ReadRaises(f)
    \/ f.kind # "dict"
    \/ f.attempts.tag = "wrong"
    \/ (TopicAttempts(f, topic) = <<>> /\ f.sessions.tag = "wrong")

\* a bug: the sessions of the topic are preferred to its attempts
get_topic_accuracy_SessionsFirst(f, topic) ==
    LET attempts == TopicAttempts(f, topic)
        sessions == TopicSessions(f, topic)
    IN  IF sessions # <<>>
        THEN <<SumSeq([i \in 1..Len(sessions) |-> sessions[i].score]),
               100 * Len(sessions)>>
        ELSE IF attempts # <<>>
        THEN <<Len(SelectSeq(attempts, LAMBDA a : a.correct)), Len(attempts)>>
        ELSE <<7, 10>>

\* the accuracy as the fraction <<numerator, denominator>>; on the scores and
\* counts of the model the float arithmetic of the code is exact at the
\* thresholds 0.5 and 0.8
get_topic_accuracy(f, topic) ==
    LET attempts == TopicAttempts(f, topic)
        sessions == TopicSessions(f, topic)
    IN  IF attempts # <<>>
        THEN <<Len(SelectSeq(attempts, LAMBDA a : a.correct)), Len(attempts)>>
        ELSE IF sessions # <<>>
        THEN <<SumSeq([i \in 1..Len(sessions) |-> sessions[i].score]),
               100 * Len(sessions)>>
        ELSE <<7, 10>>

\* a bug: an accuracy of exactly 0.8 is still medium
get_adaptive_difficulty_HardAbove(f, topic) ==
    LET acc == get_topic_accuracy(f, topic)
    IN  IF 2 * acc[1] < acc[2] THEN "easy"
        ELSE IF 5 * acc[1] <= 4 * acc[2] THEN "medium"
        ELSE "hard"

get_adaptive_difficulty(f, topic) ==
    LET acc == get_topic_accuracy(f, topic)
    IN  IF 2 * acc[1] < acc[2] THEN "easy"
        ELSE IF 5 * acc[1] < 4 * acc[2] THEN "medium"
        ELSE "hard"

(***************************************************************************)
(* JsonMemory.get_frequently_missed                                        *)
(***************************************************************************)
MissedRaises(f) == ReadRaises(f) \/ f.kind # "dict" \/ f.attempts.tag = "wrong"

\* the question ids of a list of attempts, in order of first appearance
RECURSIVE QidsInOrder(_, _)
QidsInOrder(as, seen) ==
    IF as = <<>> THEN seen
    ELSE QidsInOrder(Tail(as),
            IF Head(as).question_id \in Range(seen) THEN seen
            ELSE Append(seen, Head(as).question_id))

StatOf(as, qid) ==
    LET mine == SelectSeq(as, LAMBDA a : a.question_id = qid)
        timed == SelectSeq(mine, LAMBDA a : a.response_ms # None)
    IN  [prompt |-> mine[1].prompt,
         attempts |-> Len(mine),
         correct |-> Len(SelectSeq(mine, LAMBDA a : a.correct)),
         incorrect |-> Len(SelectSeq(mine, LAMBDA a : ~a.correct)),
         sum_ms |-> SumSeq([i \in 1..Len(timed) |-> timed[i].response_ms]),
         ms_count |-> Len(timed)]

MissedItem(st) ==
    [prompt |-> st.prompt, attempts |-> st.attempts, correct |-> st.correct,
     incorrect |-> st.incorrect,
     avg_response_ms |-> IF st.ms_count > 0 THEN RoundDiv(st.sum_ms, st.ms_count) ELSE None]

AvgOrZero(x) == IF x.avg_response_ms = None THEN 0 ELSE x.avg_response_ms

\* a bug: the sort key is the error rate alone
KeyGreater_RateOnly(x, y) == x.incorrect * y.attempts > y.incorrect * x.attempts

\* the sort key (error_rate, attempts, avg_response_ms or 0) of x is greater than y's
KeyGreater(x, y) ==
    LET ex == x.incorrect * y.attempts
        ey == y.incorrect * x.attempts
    IN  \/ ex > ey
        \/ ex = ey /\ x.attempts > y.attempts
        \/ ex = ey /\ x.attempts = y.attempts /\ AvgOrZero(x) > AvgOrZero(y)

\* list.sort(key=..., reverse=True): descending and stable
RECURSIVE InsertDesc(_, _)
InsertDesc(sorted, x) ==
    IF sorted = <<>> THEN <<x>>
    ELSE IF KeyGreater(x, Head(sorted)) THEN <<x>> \o sorted
    ELSE <<Head(sorted)>> \o InsertDesc(Tail(sorted), x)

RECURSIVE SortDesc(_, _)
SortDesc(items, acc) ==
    IF items = <<>> THEN acc ELSE SortDesc(Tail(items), InsertDesc(acc, Head(items)))

\* items[:limit]: the first limit items, all but the last -limit for limit < 0
SliceTo(items, limit) ==
    LET n == Len(items)
        stop == IF limit >= n THEN n
                ELSE IF limit >= 0 THEN limit
                ELSE IF n + limit > 0 THEN n + limit ELSE 0
    IN  SubSeq(items, 1, stop)

\* a bug: a question never missed within the topic is kept
get_frequently_missed_KeepNeverMissed(f, topic, min_attempts, limit) ==
    LET attempts == TopicAttempts(f, topic)
        qids == QidsInOrder(attempts, <<>>)
        stats == [i \in 1..Len(qids) |-> StatOf(attempts, qids[i])]
        kept == SelectSeq(stats, LAMBDA st : ~(st.attempts < min_attempts))
        items == [i \in 1..Len(kept) |-> MissedItem(kept[i])]
    IN  SliceTo(SortDesc(items, <<>>), limit)

get_frequently_missed(f, topic, min_attempts, limit) ==
    LET attempts == TopicAttempts(f, topic)
        qids == QidsInOrder(attempts, <<>>)
        stats == [i \in 1..Len(qids) |-> StatOf(attempts, qids[i])]
        kept == SelectSeq(stats, LAMBDA st : ~(st.attempts < min_attempts \/ st.incorrect = 0))
        items == [i \in 1..Len(kept) |-> MissedItem(kept[i])]
        sorted == SortDesc(items, <<>>)
    IN  SliceTo(sorted, limit)

(***************************************************************************)
(* The front-ends before they start                                        *)
(***************************************************************************)
Procs == {"ui", "cli"}

\* a front-end outside log_attempt and log_session
ProcIdle ==
    [pc |-> "idle", op |-> "none", data |-> Missing, ts |-> 0, topic |-> "",
     prompt |-> <<>>, student_answer |-> "", correct |-> FALSE, response_ms |-> None,
     score |-> 0]

ConcIdle == [local |-> [p \in Procs |-> ProcIdle], completed |-> <<>>]

\* reset_quiz_state
UIReset ==
    [quiz_started |-> FALSE, questions |-> <<>>, current_idx |-> 0,
     feedbacks |-> <<>>, correct_count |-> 0, busy |-> FALSE,
     feedback_mode |-> "immediate", topic |-> "", difficulty |-> "medium",
     nav |-> "Quiz", run_sessions |-> 0, run_attempts |-> 0]

CliIdle ==
    [pc |-> "idle", questions |-> <<>>, i |-> 0, correct_count |-> 0,
     feedback |-> "immediate", topic |-> "", difficulty |-> "medium",
     run_sessions |-> 0]

FrontIdle == conc = ConcIdle /\ ui = UIReset /\ cli = CliIdle

(***************************************************************************)
(* Operations on the store as steps                                        *)
(***************************************************************************)
Ret(op, raised, wrote) == [op |-> op, raised |-> raised, wrote |-> wrote]

\* the details payload of a session record
Details(raw, avoid_mode, difficulty, feedback_mode) ==
    [raw |-> raw, avoid_mode |-> avoid_mode, difficulty |-> difficulty,
     feedback_mode |-> feedback_mode]

\* memory = JsonMemory("progress.json")
Construct ==
    /\ file' = ConstructFile(file)
    /\ inst' = TRUE
    /\ ret' = Ret("__init__", FALSE, ConstructWrites(file))
    /\ UNCHANGED <<clock, frontVars>>

\* memory.log_attempt(topic, prompt, student_answer, correct, response_ms)
LogAttemptStep(T, P, G, M) ==
    /\ inst
    /\ clock < MaxCalls
    /\ \E topic \in T, prompt \in P, graded \in G, response_ms \in M :
          LET r == log_attempt(file, clock + 1, topic, prompt, graded[1],
                               graded[2], response_ms)
          IN  /\ file' = r.data
              /\ ret' = Ret("log_attempt", r.raised, ~r.raised)
    /\ clock' = clock + 1
    /\ UNCHANGED <<inst, frontVars>>

\* memory.log_session(topic, score, details)
LogSessionStep(T, S) ==
    /\ inst
    /\ clock < MaxCalls
    /\ \E topic \in T, score \in S :
          LET r == log_session(file, clock + 1, topic, score,
                               Details(<<0, 0>>, "all", "medium", "immediate"))
          IN  /\ file' = r.data
              /\ ret' = Ret("log_session", r.raised, ~r.raised)
    /\ clock' = clock + 1
    /\ UNCHANGED <<inst, frontVars>>

\* memory.get_excluded_prompts(mode, topic)
GetExcludedPrompts ==
    /\ inst
    /\ ret' = Ret("get_excluded_prompts", ExcludedRaises(file), FALSE)
    /\ UNCHANGED <<file, inst, clock, frontVars>>

\* memory.get_adaptive_difficulty(topic)
GetAdaptiveDifficulty ==
    /\ inst
    /\ \E topic \in Topics :
          ret' = Ret("get_adaptive_difficulty", AccuracyRaises(file, topic), FALSE)
    /\ UNCHANGED <<file, inst, clock, frontVars>>

\* memory.get_frequently_missed(topic, min_attempts, limit)
GetFrequentlyMissed ==
    /\ inst
    /\ ret' = Ret("get_frequently_missed", MissedRaises(file), FALSE)
    /\ UNCHANGED <<file, inst, clock, frontVars>>

(***************************************************************************)
(* Spec: one JsonMemory user, sequential calls, starting without a file    *)
(***************************************************************************)
SpecMs == {4}

LogAttempt == LogAttemptStep(Topics, Prompts, Gradings, SpecMs)

LogSession == LogSessionStep(Topics, {0, 100})

Init ==
    /\ file = Missing
    /\ inst = FALSE
    /\ clock = 0
    /\ ret = Ret("none", FALSE, FALSE)
    /\ FrontIdle

Next ==
    \/ Construct
    \/ LogAttempt
    \/ LogSession
    \/ GetExcludedPrompts
    \/ GetAdaptiveDifficulty
    \/ GetFrequentlyMissed

Spec == Init /\ [][Next]_vars

(***************************************************************************)
(* Properties of the store under sequential use (Spec)                     *)
(***************************************************************************)
Attempts(f) == f.attempts.val
Sessions(f) == f.sessions.val
Questions(f) == f.questions.val

AttemptsOf(f, qid) == SelectSeq(Attempts(f), LAMBDA a : a.question_id = qid)

\* C1: starting from the canonical empty store, after any sequence of
\* log_attempt and log_session calls every question id of the ledger has an
\* aggregate record, and each aggregate's times_asked is the number of
\* ledger records with its question id.
C1_TimesAskedCountsAttempts ==
    inst =>
       /\ \A i \in 1..Len(Attempts(file)) :
             QIndex(Questions(file), Attempts(file)[i].question_id) # 0
       /\ \A j \in 1..Len(Questions(file)) :
             Questions(file)[j].times_asked
                = Len(AttemptsOf(file, Questions(file)[j].qid))

\* two differently written prompts of one question and a second question
C1_Witness ==
    /\ Len(Attempts(file)) = 3
    /\ Len(Questions(file)) = 2
    /\ \E j \in 1..2 : Questions(file)[j].times_asked = 2
    /\ \E i, k \in 1..3 :
          /\ Attempts(file)[i].question_id = Attempts(file)[k].question_id
          /\ Attempts(file)[i].prompt # Attempts(file)[k].prompt

IsPrefix(s, t) == Len(s) <= Len(t) /\ SubSeq(t, 1, Len(s)) = s

\* C4: under sequential use every log_attempt extends the ledger by exactly
\* one record at the end, and every operation (log_attempt, log_session, the
\* queries, constructing JsonMemory again) leaves the records appended
\* before unchanged and in order.
C4_LedgerAppendOnly ==
    [][/\ IsPrefix(Attempts(file), Attempts(file'))
       /\ (ret'.op = "log_attempt" /\ ~ret'.raised
              => Len(Attempts(file')) = Len(Attempts(file)) + 1)
       /\ (ret'.op # "log_attempt" => Attempts(file') = Attempts(file))]_vars

\* a session logged and the instance constructed again over a ledger of two
C4_Witness ==
    /\ Len(Attempts(file)) = 2
    /\ Len(Sessions(file)) = 1
    /\ Sessions(file)[1].timestamp = 3
    /\ ret.op = "__init__"

ExcludedTopics == Topics \cup {NoTopic}

\* C10: for every store state and every topic argument (or none), each
\* prompt returned in mode "correct" is also returned in mode "all".
C10_CorrectSubsetOfAll ==
    inst =>
       \A topic \in ExcludedTopics :
          Range(get_excluded_prompts(file, "correct", topic))
             \subseteq Range(get_excluded_prompts(file, "all", topic))

\* a question asked under both topics and last answered correctly, beside
\* one that "correct" leaves out
C10_Witness ==
    /\ ret.op = "get_excluded_prompts"
    /\ ~ret.raised
    /\ get_excluded_prompts(file, "correct", "T2") # <<>>
    /\ Len(get_excluded_prompts(file, "correct", "T2"))
          < Len(get_excluded_prompts(file, "all", "T2"))
    /\ \E j \in 1..Len(Questions(file)) : Len(Questions(file)[j].topics) = 2

\* the last element of a non-empty sequence
Last(s) == s[Len(s)]

\* the question has an attempt record under the topic (any, when none is given)
AskedUnder(f, qid, topic) ==
    \/ topic = NoTopic
    \/ \E i \in 1..Len(Attempts(f)) :
          Attempts(f)[i].question_id = qid /\ Attempts(f)[i].topic = topic

\* the most recent attempt record of the question is correct
LastAttemptCorrect(f, qid) ==
    AttemptsOf(f, qid) # <<>> /\ Last(AttemptsOf(f, qid)).correct

\* the stored prompts of the aggregate records asked under the topic (and,
\* with correctOnly, last answered correctly), in the order of the question
\* index
StoredPrompts(f, topic, correctOnly) ==
    LET kept == SelectSeq(Questions(f),
                   LAMBDA rec : /\ AskedUnder(f, rec.qid, topic)
                                /\ (correctOnly => LastAttemptCorrect(f, rec.qid)))
    IN  [i \in 1..Len(kept) |-> kept[i].prompt]

\* C11: after any sequence of log_attempt calls, get_excluded_prompts("all",
\* topic) returns exactly the stored prompts of the aggregates whose question
\* was attempted under the topic (all aggregates when no topic is given) and
\* get_excluded_prompts("correct", topic) exactly those among them whose most
\* recent attempt was correct; a prompt never leaves the "all" result of a
\* topic, and it is absent from the "correct" result whenever the most recent
\* attempt at its question is incorrect.
C11_ExcludedMatchesIndex ==
    /\ [](inst =>
            \A topic \in ExcludedTopics :
               /\ get_excluded_prompts(file, "all", topic)
                     = StoredPrompts(file, topic, FALSE)
               /\ get_excluded_prompts(file, "correct", topic)
                     = StoredPrompts(file, topic, TRUE))
    /\ [][\A topic \in ExcludedTopics :
             Range(get_excluded_prompts(file, "all", topic))
                \subseteq Range(get_excluded_prompts(file', "all", topic))]_vars

\* a question answered correctly under T1 and then incorrectly under T2 is
\* still excluded for T1 in mode "all" and no longer in mode "correct",
\* beside a question that both modes return
C11_Witness ==
    /\ inst
    /\ Len(Attempts(file)) = 3
    /\ Attempts(file)[1].topic = "T1" /\ Attempts(file)[1].correct
    /\ Attempts(file)[3].topic = "T2" /\ ~Attempts(file)[3].correct
    /\ Attempts(file)[3].question_id = Attempts(file)[1].question_id
    /\ Len(get_excluded_prompts(file, "all", "T1")) = 2
    /\ Len(get_excluded_prompts(file, "correct", "T1")) = 1
    /\ get_excluded_prompts(file, "all", "T2") = <<Attempts(file)[1].prompt>>

(***************************************************************************)
(* SpecAccuracy: attempts and sessions with scores on and around the       *)
(* difficulty thresholds                                                   *)
(***************************************************************************)
AccuracyScores == {0, 50, 80, 100}

LogAttemptAccuracy == LogAttemptStep(Topics, {PromptA}, Gradings, SpecMs)

LogSessionAccuracy == LogSessionStep(Topics, AccuracyScores)

NextAccuracy ==
    \/ Construct
    \/ LogAttemptAccuracy
    \/ LogSessionAccuracy
    \/ GetAdaptiveDifficulty

SpecAccuracy == Init /\ [][NextAccuracy]_vars

\* easy < medium < hard
DifficultyRank(d) == IF d = "easy" THEN 1 ELSE IF d = "medium" THEN 2 ELSE 3

\* the fraction a is at most the fraction b
FracLeq(a, b) == a[1] * b[2] <= b[1] * a[2]

\* C12: get_adaptive_difficulty(topic) is easy when the topic accuracy is
\* below 0.5, medium when it is at least 0.5 and below 0.8, hard when it is at
\* least 0.8; it never becomes easier as the accuracy rises; a topic with no
\* attempts and no sessions yields medium.
C12_DifficultyThresholds ==
    inst =>
       /\ \A t \in Topics :
             LET acc == get_topic_accuracy(file, t)
                 d == get_adaptive_difficulty(file, t)
             IN  /\ (d = "easy") = (2 * acc[1] < acc[2])
                 /\ (d = "medium") = (2 * acc[1] >= acc[2] /\ 5 * acc[1] < 4 * acc[2])
                 /\ (d = "hard") = (5 * acc[1] >= 4 * acc[2])
                 /\ (TopicAttempts(file, t) = <<>> /\ TopicSessions(file, t) = <<>>
                        => d = "medium")
       /\ \A t, u \in Topics :
             FracLeq(get_topic_accuracy(file, t), get_topic_accuracy(file, u))
                => DifficultyRank(get_adaptive_difficulty(file, t))
                      <= DifficultyRank(get_adaptive_difficulty(file, u))

\* one topic exactly on the 0.8 threshold and hard, the other exactly on the
\* 0.5 threshold and medium
C12_Witness ==
    /\ ret.op = "get_adaptive_difficulty"
    /\ ~ret.raised
    /\ get_topic_accuracy(file, "T1") = <<80, 100>>
    /\ get_adaptive_difficulty(file, "T1") = "hard"
    /\ get_topic_accuracy(file, "T2") = <<1, 2>>
    /\ get_adaptive_difficulty(file, "T2") = "medium"

\* the positions of the ledger / of the sessions that belong to the topic
AttemptIdx(f, t) == {i \in 1..Len(Attempts(f)) : Attempts(f)[i].topic = t}

SessionIdx(f, t) == {i \in 1..Len(Sessions(f)) : Sessions(f)[i].topic = t}

\* the sum of the scores of the sessions at the positions I
RECURSIVE ScoreSum(_, _)
ScoreSum(f, I) ==
    IF I = {} THEN 0
    ELSE LET i == CHOOSE j \in I : TRUE
         IN  Sessions(f)[i].score + ScoreSum(f, I \ {i})

\* the document without the attempts and sessions of other topics
OnlyTopic(f, t) ==
    [f EXCEPT !.attempts = Slot(SelectSeq(Attempts(f), LAMBDA a : a.topic = t)),
              !.sessions = Slot(SelectSeq(Sessions(f), LAMBDA x : x.topic = t))]

\* C13: the topic accuracy is the number of correct ledger entries of the
\* topic divided by the number of its ledger entries whenever it has one
\* (session scores are then ignored); with no attempts it is the mean of
\* score/100 over the sessions of the topic; with neither it is 0.7.
\* Attempts and sessions of other topics never influence the result.
C13_AccuracySources ==
    inst =>
       \A t \in Topics :
          LET acc == get_topic_accuracy(file, t)
              na == Cardinality(AttemptIdx(file, t))
              nc == Cardinality({i \in AttemptIdx(file, t) : Attempts(file)[i].correct})
              ns == Cardinality(SessionIdx(file, t))
          IN  /\ na > 0 => acc = <<nc, na>>
              /\ na = 0 /\ ns > 0 => acc = <<ScoreSum(file, SessionIdx(file, t)), 100 * ns>>
              /\ na = 0 /\ ns = 0 => acc = <<7, 10>>
              /\ acc = get_topic_accuracy(OnlyTopic(file, t), t)

\* T1 has one correct attempt of one and a session of score 0 that is
\* ignored; T2 has a session only
C13_Witness ==
    /\ inst
    /\ Cardinality(AttemptIdx(file, "T1")) = 1
    /\ Cardinality(SessionIdx(file, "T1")) = 1
    /\ Sessions(file)[1].score = 0
    /\ get_topic_accuracy(file, "T1") = <<1, 1>>
    /\ AttemptIdx(file, "T2") = {}
    /\ get_topic_accuracy(file, "T2") = <<50, 100>>

(***************************************************************************)
(* SpecMissed: two questions attempted under two topics, and the report of *)
(* frequently missed questions (SpecTiming varies the response times)      *)
(***************************************************************************)
LogAttemptMissed == LogAttemptStep(Topics, {PromptA, PromptB}, Gradings, SpecMs)

NextMissed ==
    \/ Construct
    \/ LogAttemptMissed
    \/ GetFrequentlyMissed

SpecMissed == Init /\ [][NextMissed]_vars

\* the arguments of get_frequently_missed explored
MinAttemptsArgs == 0..3

LimitArgs == -1..3

\* the positions of the ledger entries of the question within the topic
TopicQIdx(f, t, qid) == {i \in AttemptIdx(f, t) : Attempts(f)[i].question_id = qid}

\* how often the question was answered incorrectly within the topic
TopicIncorrect(f, t, qid) ==
    Cardinality({i \in TopicQIdx(f, t, qid) : ~Attempts(f)[i].correct})

\* C14: for all topics, all min_attempts and limit values and all stores,
\* get_frequently_missed never returns a question whose incorrect count
\* within the topic is zero, and never one with fewer than min_attempts
\* attempts within the topic.
C14_MissedOnlyMissed ==
    inst =>
       \A t \in Topics, m \in MinAttemptsArgs, l \in LimitArgs :
          LET res == get_frequently_missed(file, t, m, l)
          IN  \A k \in 1..Len(res) :
                 LET qid == question_id(res[k].prompt)
                 IN  /\ TopicIncorrect(file, t, qid) > 0
                     /\ Cardinality(TopicQIdx(file, t, qid)) >= m

\* question a was missed under T1 and is reported there, while question b,
\* never missed under T1 but missed under T2, is not; with min_attempts 2
\* nothing is reported
C14_Witness ==
    /\ ret.op = "get_frequently_missed"
    /\ ~ret.raised
    /\ TopicIncorrect(file, "T1", question_id(PromptA)) = 1
    /\ Cardinality(TopicQIdx(file, "T1", question_id(PromptB))) = 1
    /\ TopicIncorrect(file, "T1", question_id(PromptB)) = 0
    /\ TopicIncorrect(file, "T2", question_id(PromptB)) = 1
    /\ Len(get_frequently_missed(file, "T1", 1, 3)) = 1
    /\ get_frequently_missed(file, "T1", 2, 3) = <<>>

\* item x comes strictly before item y in descending lexicographic order of
\* (incorrect / attempts, attempts, avg_response_ms with None as 0)
SortsBefore(x, y) ==
    LET ax == IF x.avg_response_ms = None THEN 0 ELSE x.avg_response_ms
        ay == IF y.avg_response_ms = None THEN 0 ELSE y.avg_response_ms
        rx == x.incorrect * y.attempts
        ry == y.incorrect * x.attempts
    IN  \/ rx > ry
        \/ rx = ry /\ x.attempts > y.attempts
        \/ rx = ry /\ x.attempts = y.attempts /\ ax > ay

\* the questions that qualify for the report of the topic
Qualifying(f, t, m) ==
    {qid \in {Attempts(f)[i].question_id : i \in AttemptIdx(f, t)} :
        /\ Cardinality(TopicQIdx(f, t, qid)) >= m
        /\ TopicIncorrect(f, t, qid) > 0}

C16_MissedStatsWithinTopic ==
    inst =>
       \A t \in Topics, m \in MinAttemptsArgs :
          LET res == get_frequently_missed(file, t, m, MaxCalls + 1)
          IN  \A k \in 1..Len(res) :
                 LET qid == question_id(res[k].prompt)
                     mine == TopicQIdx(file, t, qid)
                 IN  /\ res[k].attempts = Cardinality(mine)
                     /\ res[k].correct
                           = Cardinality({i \in mine : Attempts(file)[i].correct})
                     /\ res[k].incorrect = TopicIncorrect(file, t, qid)
                     /\ res[k].correct + res[k].incorrect = res[k].attempts
                     /\ res[k].attempts
                           <= Questions(file)[QIndex(Questions(file), qid)].times_asked

\* a question attempted twice under T1 and once under T2 is reported for T1
\* with attempts = 2 while its aggregate has times_asked = 3
C16_Witness ==
    /\ ret.op = "get_frequently_missed"
    /\ ~ret.raised
    /\ Len(Questions(file)) = 1
    /\ Questions(file)[1].times_asked = 3
    /\ Cardinality(AttemptIdx(file, "T2")) = 1
    /\ Len(get_frequently_missed(file, "T1", 1, 3)) = 1
    /\ get_frequently_missed(file, "T1", 1, 3)[1].attempts = 2
    /\ get_frequently_missed(file, "T1", 1, 3)[1].correct = 1

(***************************************************************************)
(* SpecIdentity: prompts that differ in whitespace and case, and one that  *)
(* differs in its text                                                     *)
(***************************************************************************)
PromptAB == <<"a", " ", "b">>
PromptAB2 == <<"A", " ", " ", "B", " ">>
PromptAB3 == <<"a", "b">>

IdentityPrompts == {PromptA, PromptA2, PromptAB, PromptAB2, PromptAB3}

LogAttemptIdentity == LogAttemptStep({"T1"}, IdentityPrompts, Gradings, SpecMs)

NextIdentity ==
    \/ Construct
    \/ LogAttemptIdentity
    \/ GetExcludedPrompts

SpecIdentity == Init /\ [][NextIdentity]_vars

\* the prompt read character by character: leading whitespace dropped, every
\* later run of whitespace turned into one space, which is dropped again at
\* the end; pending tells that a run of whitespace was seen after a word
RECURSIVE Squeeze(_, _, _)
Squeeze(s, out, pending) ==
    IF s = <<>> THEN out
    ELSE IF Head(s) = " " THEN Squeeze(Tail(s), out, out # <<>>)
    ELSE Squeeze(Tail(s), (IF pending THEN Append(out, " ") ELSE out) \o <<Head(s)>>, FALSE)

\* the two characters are the same letter
SameLetter(c, d) ==
    \/ c = d
    \/ {c, d} = {"a", "A"}
    \/ {c, d} = {"b", "B"}

\* the two prompts differ only in leading or trailing whitespace, in runs of
\* internal whitespace, or in letter case
SameQuestion(p, q) ==
    LET x == Squeeze(p, <<>>, FALSE)
        y == Squeeze(q, <<>>, FALSE)
    IN  Len(x) = Len(y) /\ \A i \in 1..Len(x) : SameLetter(x[i], y[i])

\* C17: the question identity depends only on the normalised prompt: two
\* log_attempt calls whose prompts differ only in leading or trailing
\* whitespace, runs of internal whitespace or letter case carry the same
\* question id and update one aggregate record, whose times_asked counts
\* them all; prompts that differ otherwise carry different ids; the id of a
\* prompt is the same in every call.
C17_IdentityByNormalizedPrompt ==
    inst =>
       /\ \A i, j \in 1..Len(Attempts(file)) :
             (Attempts(file)[i].question_id = Attempts(file)[j].question_id)
                = SameQuestion(Attempts(file)[i].prompt, Attempts(file)[j].prompt)
       /\ \A i \in 1..Len(Attempts(file)) :
             /\ Attempts(file)[i].question_id = question_id(Attempts(file)[i].prompt)
             /\ Cardinality({k \in 1..Len(Questions(file)) :
                                Questions(file)[k].qid = Attempts(file)[i].question_id}) = 1
             /\ Questions(file)[QIndex(Questions(file), Attempts(file)[i].question_id)].times_asked
                   = Cardinality({j \in 1..Len(Attempts(file)) :
                                     SameQuestion(Attempts(file)[i].prompt,
                                                  Attempts(file)[j].prompt)})

\* "a b" and "A  B " were logged and share one aggregate with times_asked =
\* 2; "ab" was logged and has its own
C17_Witness ==
    /\ ret.op = "log_attempt"
    /\ ~ret.raised
    /\ Attempts(file)[1].prompt = PromptAB
    /\ Len(Attempts(file)) = 3
    /\ Attempts(file)[2].prompt = PromptAB2
    /\ Attempts(file)[3].prompt = PromptAB3
    /\ Len(Questions(file)) = 2
    /\ Questions(file)[1].times_asked = 2
    /\ Questions(file)[2].times_asked = 1

(***************************************************************************)
(* The aggregate record against the ledger (Spec)                          *)
(***************************************************************************)
\* C18: the prompt text stored in a question aggregate is kept in sync with
\* the most recent attempt: after every log_attempt the aggregate's prompt
\* equals the prompt passed to the latest log_attempt call for its question
\* id, also when that string differs from earlier ones in case or whitespace
\* only.
C18_PromptInSync ==
    inst =>
       \A k \in 1..Len(Questions(file)) :
          LET mine == AttemptsOf(file, Questions(file)[k].qid)
          IN  mine # <<>> => Questions(file)[k].prompt = Last(mine).prompt

\* C19: after any sequence of log_attempt calls each aggregate's last_answer,
\* last_correct and last_timestamp are the student_answer, the correctness
\* flag and the timestamp of the most recent ledger record with its question
\* id, whatever the topic of that attempt.
C19_LastFieldsFollowLedger ==
    inst =>
       \A k \in 1..Len(Questions(file)) :
          LET mine == AttemptsOf(file, Questions(file)[k].qid)
          IN  /\ mine # <<>>
              /\ Questions(file)[k].last_answer = Last(mine).student_answer
              /\ Questions(file)[k].last_correct = Last(mine).correct
              /\ Questions(file)[k].last_timestamp = Last(mine).timestamp

\* a question answered correctly under T1, then incorrectly under T2 after an
\* attempt at another question: the aggregate shows the T2 attempt
C19_Witness ==
    /\ ret.op = "log_attempt"
    /\ ~ret.raised
    /\ Len(Attempts(file)) = 3
    /\ Attempts(file)[1].topic = "T1" /\ Attempts(file)[1].correct
    /\ Attempts(file)[3].topic = "T2" /\ ~Attempts(file)[3].correct
    /\ Attempts(file)[3].question_id = Attempts(file)[1].question_id
    /\ Attempts(file)[2].question_id # Attempts(file)[1].question_id
    /\ Questions(file)[1].last_answer = "y"
    /\ ~Questions(file)[1].last_correct
    /\ Questions(file)[1].last_timestamp = 3

\* topic t sorts strictly before topic u
TopicBefore(t, u) == t = "T1" /\ u = "T2"

\* C20: after any sequence of log_attempt calls each aggregate's topics field
\* is an ordered sequence without duplicates whose elements are exactly the
\* topics of the ledger records with its question id; an attempt under a
\* topic already recorded leaves topics unchanged, and a topic is never
\* removed.
C20_TopicsFollowLedger ==
    /\ [](inst =>
            \A k \in 1..Len(Questions(file)) :
               LET rec == Questions(file)[k]
                   mine == AttemptsOf(file, rec.qid)
               IN  /\ \A i, j \in 1..Len(rec.topics) :
                         i < j => TopicBefore(rec.topics[i], rec.topics[j])
                   /\ Range(rec.topics) = {mine[i].topic : i \in 1..Len(mine)})
    /\ [][\A k \in 1..Len(Questions(file)) :
             LET rec == Questions(file)[k]
                 i == QIndex(Questions(file'), rec.qid)
             IN  /\ i # 0
                 /\ Range(rec.topics) \subseteq Range(Questions(file')[i].topics)
                 /\ (/\ ret'.op = "log_attempt"
                      /\ ~ret'.raised
                      /\ Last(Attempts(file')).question_id = rec.qid
                      /\ Last(Attempts(file')).topic \in Range(rec.topics)
                        => Questions(file')[i].topics = rec.topics)]_vars

\* a question asked under T2, then T1, then T2 again: topics is T1, T2
C20_Witness ==
    /\ ret.op = "log_attempt"
    /\ ~ret.raised
    /\ Len(Attempts(file)) = 3
    /\ Attempts(file)[1].topic = "T2"
    /\ Attempts(file)[2].topic = "T1"
    /\ Attempts(file)[3].topic = "T2"
    /\ Len(Questions(file)) = 1
    /\ Questions(file)[1].topics = <<"T1", "T2">>

\* C21: log_session appends exactly one session record, with the given
\* topic, score and details, at the end of sessions, leaves all earlier
\* session records unchanged and in order, and leaves the attempts ledger and
\* the questions index unchanged.
C21_LogSessionFrame ==
    [][ret'.op = "log_session" /\ ~ret'.raised =>
          /\ \E topic \in Topics, score \in Scores :
                Sessions(file') =
                   Append(Sessions(file),
                          SessionRecord(clock', topic, score,
                                        Details(<<0, 0>>, "all", "medium", "immediate")))
          /\ file'.attempts = file.attempts
          /\ file'.questions = file.questions]_vars

\* a second session logged after an attempt: both sessions in order, the
\* ledger and the index as the attempt left them
C21_Witness ==
    /\ ret.op = "log_session"
    /\ ~ret.raised
    /\ Len(Sessions(file)) = 2
    /\ Sessions(file)[1].timestamp = 1
    /\ Sessions(file)[2].timestamp = 3
    /\ Sessions(file)[1].score # Sessions(file)[2].score
    /\ Len(Attempts(file)) = 1
    /\ Attempts(file)[1].timestamp = 2
    /\ Len(Questions(file)) = 1

(***************************************************************************)
(* SpecFresh: the two front-ends, each with its own JsonMemory, query the  *)
(* store between writes.  conc.local[p].data is the document that p's last *)
(* query read; ret carries the caller and the value returned.              *)
(***************************************************************************)
Queries == {"get_excluded_prompts", "get_adaptive_difficulty", "get_frequently_missed"}

\* a bug: a JsonMemory that has read the file answers from that document
QueryRead_Cached(f, last) == IF last.kind = "dict" THEN last ELSE f

\* data = self._read() at the head of a query: the file as persisted now
QueryRead(f, last) == f

\* what the query returns on the document d (topic T1, the other arguments
\* at their defaults)
QueryValue(op, d) ==
    IF op = "get_excluded_prompts"
    THEN <<get_excluded_prompts(d, "all", "T1"), get_excluded_prompts(d, "correct", "T1")>>
    ELSE IF op = "get_adaptive_difficulty"
    THEN <<get_adaptive_difficulty(d, "T1")>>
    ELSE get_frequently_missed(d, "T1", 1, 5)

QueryRaises(op, d) ==
    IF op = "get_excluded_prompts" THEN ExcludedRaises(d)
    ELSE IF op = "get_adaptive_difficulty" THEN AccuracyRaises(d, "T1")
    ELSE MissedRaises(d)

\* front-end p calls the query op on its JsonMemory
FreshQuery(op) ==
    /\ inst
    /\ \E p \in Procs :
          LET d == QueryRead(file, conc.local[p].data)
          IN  /\ ret' = [op |-> op, raised |-> QueryRaises(op, d), wrote |-> FALSE,
                         by |-> p, value |-> QueryValue(op, d)]
              /\ conc' = [conc EXCEPT !.local[p].data = d]
    /\ UNCHANGED <<file, inst, clock, ui, cli>>

FreshExcluded == FreshQuery("get_excluded_prompts")

FreshDifficulty == FreshQuery("get_adaptive_difficulty")

FreshMissed == FreshQuery("get_frequently_missed")

LogAttemptFresh == LogAttemptStep({"T1"}, {PromptA, PromptB}, Gradings, SpecMs)

LogSessionFresh == LogSessionStep({"T1"}, {100})

NextFresh ==
    \/ Construct
    \/ LogAttemptFresh
    \/ LogSessionFresh
    \/ FreshExcluded
    \/ FreshDifficulty
    \/ FreshMissed

SpecFresh == Init /\ [][NextFresh]_vars

\* C22: get_excluded_prompts, get_adaptive_difficulty and
\* get_frequently_missed are read-only and never cached: each leaves the
\* persisted document unchanged, and each result is the one computed from the
\* document persisted at the time of the call, so a query issued after a
\* write by another JsonMemory instance reflects that write.
C22_QueriesReadFresh ==
    [][ret'.op \in Queries =>
          /\ file' = file
          /\ ~ret'.wrote
          /\ ret'.raised = QueryRaises(ret'.op, file)
          /\ ret'.value = QueryValue(ret'.op, file)]_vars

\* the CLI queried first, an attempt was then logged, and the UI's query
\* returns the excluded prompts of the document with that attempt, which the
\* document the CLI saw does not give
C22_Witness ==
    /\ ret.op = "get_excluded_prompts"
    /\ ret.by = "ui"
    /\ conc.local["ui"].data = file
    /\ conc.local["cli"].data.kind = "dict"
    /\ Len(Attempts(conc.local["cli"].data)) = 1
    /\ Len(Attempts(file)) = 2
    /\ ret.value = QueryValue("get_excluded_prompts", file)
    /\ ret.value # QueryValue("get_excluded_prompts", conc.local["cli"].data)

\* C23 (SpecTiming): a log_attempt call with a response_ms that cannot be
\* converted to an integer fails to its caller and writes nothing: the
\* persisted document after the failed call is the document before it, no
\* attempt appended and no aggregate changed; no unconverted value is ever
\* found in the store.
C23_BadResponseMsWritesNothing ==
    /\ [][ret'.op = "log_attempt" =>
             /\ ret'.raised => file' = file /\ ~ret'.wrote
             /\ ~ret'.raised => Len(Attempts(file')) = Len(Attempts(file)) + 1]_vars
    /\ [](inst =>
            /\ \A i \in 1..Len(Attempts(file)) : Attempts(file)[i].response_ms # BadMs
            /\ \A k \in 1..Len(Questions(file)) :
                  /\ Questions(file)[k].last_response_ms # BadMs
                  /\ Questions(file)[k].avg_response_ms # BadMs
                  /\ Questions(file)[k].times_asked
                        = Len(AttemptsOf(file, Questions(file)[k].qid)))

\* the third call failed on a store of two attempts, which it left as it was
C23_Witness ==
    /\ ret.op = "log_attempt"
    /\ ret.raised
    /\ ~ret.wrote
    /\ clock = 3
    /\ Len(Attempts(file)) = 2
    /\ Attempts(file)[2].timestamp = 2
    /\ Len(Questions(file)) = 1
    /\ Questions(file)[1].times_asked = 2

(***************************************************************************)
(* SpecOracle: generate_quiz (quiz_engine.py) and grade_answer             *)
(* (evaluation.py) on the replies of the language model.  A reply is given *)
(* by how its text parses and by the JSON value it holds:                  *)
(*   text "json"    - json.loads(reply) succeeds and yields the value      *)
(*   text "wrapped" - json.loads(reply) fails; the text from the first "{" *)
(*                    to the last "}" parses and yields the value          *)
(*   text "invalid" - neither parses                                       *)
(*   text "nonstr"  - the reply content is not a string                    *)
(***************************************************************************)
\* questions per quiz explored
MaxQuizLen == 2

ReplyTexts == {"json", "wrapped", "invalid", "nonstr"}

\* a field of a question: absent, not a string, blank, or a non-blank string
FieldKinds == {"absent", "nonstr", "blank", "ok"}

Options(islist, len) == [islist |-> islist, len |-> len]

Question(type, prompt, options, answer) ==
    [isdict |-> TRUE, type |-> type, prompt |-> prompt, options |-> options,
     answer |-> answer]

\* an element of questions that is not an object
NotAQuestion ==
    [isdict |-> FALSE, type |-> "absent", prompt |-> "absent",
     options |-> Options(FALSE, 0), answer |-> "absent"]

\* the questions a reply may hold: well-formed ones and ones with one defect
QuestionShapes ==
    {NotAQuestion}
       \cup {Question(t, "ok", Options(TRUE, 4), "ok") : t \in {"mcq", "short", "essay", "absent"}}
       \cup {Question("mcq", "ok", o, "ok") :
                o \in {Options(FALSE, 0), Options(TRUE, 3), Options(TRUE, 5)}}
       \cup {Question("short", "ok", o, "ok") : o \in {Options(FALSE, 0), Options(TRUE, 3)}}
       \cup {Question("short", k, Options(FALSE, 0), "ok") : k \in FieldKinds}
       \cup {Question("mcq", "ok", Options(TRUE, 4), k) : k \in FieldKinds}

RECURSIVE SeqsUpTo(_, _)
SeqsUpTo(S, n) ==
    IF n = 0 THEN {<<>>}
    ELSE LET shorter == SeqsUpTo(S, n - 1)
         IN  shorter \cup {Append(q, x) : q \in shorter, x \in S}

\* the JSON value of a quiz reply: not an object, an object without
\* "questions", with a "questions" that is not a list, or with a list
QuizValue(shape, questions) == [shape |-> shape, questions |-> questions]

QuizValues ==
    {QuizValue(sh, <<>>) : sh \in {"notdict", "noquestions", "questionsnotlist"}}
       \cup {QuizValue("ok", qs) : qs \in SeqsUpTo(QuestionShapes, MaxQuizLen)}

\* the JSON value of a grading reply; correct and feedback are each absent,
\* of the wrong type, or well-typed
GradeValue(isdict, correct, feedback) ==
    [isdict |-> isdict, correct |-> correct, feedback |-> feedback]

GradeValues ==
    {GradeValue(FALSE, "absent", "absent")}
       \cup {GradeValue(TRUE, c, f) : c \in {"absent", "nonbool", "true", "false"},
                                      f \in {"absent", "nonstr", "ok"}}

Reply(text, value) == [text |-> text, value |-> value]

\* a text that holds no value has none to vary; "wrapped" holds an object
QuizReplies ==
    {Reply(t, v) : t \in {"json"}, v \in QuizValues}
       \cup {Reply("wrapped", v) : v \in {w \in QuizValues : w.shape # "notdict"}}
       \cup {Reply(t, QuizValue("notdict", <<>>)) : t \in {"invalid", "nonstr"}}

GradeReplies ==
    {Reply(t, v) : t \in {"json"}, v \in GradeValues}
       \cup {Reply("wrapped", v) : v \in {w \in GradeValues : w.isdict}}
       \cup {Reply(t, GradeValue(FALSE, "absent", "absent")) : t \in {"invalid", "nonstr"}}

\* _safe_json_loads: the parsed value, or the exception of json.loads (a
\* TypeError for a reply that is not a string)
safe_json_loads(reply) ==
    IF reply.text \in {"json", "wrapped"}
    THEN [raised |-> FALSE, value |-> reply.value]
    ELSE [raised |-> TRUE, value |-> reply.value]

\* the checks of _validate_quiz_schema on one question: TRUE when it raises
QuestionRaises(q) ==
    \/ ~q.isdict
    \/ q.type \notin {"mcq", "short"}
    \/ q.prompt # "ok"
    \/ (q.type = "mcq" /\ (~q.options.islist \/ q.options.len # 4))
    \/ q.answer # "ok"

\* a bug: the options of an mcq are not counted
validate_quiz_schema_AnyOptions(obj) ==
    \/ obj.shape # "ok"
    \/ \E i \in 1..Len(obj.questions) :
          LET q == obj.questions[i]
          IN  ~q.isdict \/ q.type \notin {"mcq", "short"} \/ q.prompt # "ok" \/ q.answer # "ok"

\* _validate_quiz_schema: TRUE when it raises ValueError; it returns obj otherwise
validate_quiz_schema(obj) ==
    \/ obj.shape # "ok"
    \/ \E i \in 1..Len(obj.questions) : QuestionRaises(obj.questions[i])

\* generate_quiz from the reply on: the "questions" of the dict returned
generate_quiz(reply) ==
    LET data == safe_json_loads(reply)
    IN  IF data.raised \/ validate_quiz_schema(data.value)
        THEN [raised |-> FALSE, questions |-> <<>>]
        ELSE [raised |-> FALSE, questions |-> data.value.questions]

\* _validate_grade_schema: TRUE when it raises ValueError
validate_grade_schema(obj) ==
    \/ ~obj.isdict
    \/ obj.correct \notin {"true", "false"}
    \/ obj.feedback # "ok"

\* grade_answer from the reply on
grade_answer(reply) ==
    LET data == safe_json_loads(reply)
    IN  IF data.raised \/ validate_grade_schema(data.value)
        THEN [raised |-> FALSE, correct |-> FALSE, feedback |-> "parse_failure"]
        ELSE [raised |-> FALSE, correct |-> data.value.correct = "true",
              feedback |-> "oracle"]

\* quiz = generate_quiz(...) on some reply of the model
GenerateQuiz ==
    /\ \E reply \in QuizReplies :
          ret' = [op |-> "generate_quiz", raised |-> generate_quiz(reply).raised,
                  wrote |-> FALSE, reply |-> reply, value |-> generate_quiz(reply)]
    /\ UNCHANGED <<file, inst, clock, frontVars>>

\* result = grade_answer(...) on some reply of the model
GradeAnswer ==
    /\ \E reply \in GradeReplies :
          ret' = [op |-> "grade_answer", raised |-> grade_answer(reply).raised,
                  wrote |-> FALSE, reply |-> reply, value |-> grade_answer(reply)]
    /\ UNCHANGED <<file, inst, clock, frontVars>>

NextOracle ==
    \/ GenerateQuiz
    \/ GradeAnswer

SpecOracle == Init /\ [][NextOracle]_vars

\* the value is a quiz of the schema: a questions list whose questions have
\* type mcq or short, a non-empty prompt and answer, and four options if mcq
ConformingQuestion(q) ==
    /\ q.isdict
    /\ q.type \in {"mcq", "short"}
    /\ q.prompt = "ok"
    /\ q.answer = "ok"
    /\ (q.type = "mcq" => q.options.islist /\ q.options.len = 4)

ConformingQuiz(v) ==
    v.shape = "ok" /\ \A i \in 1..Len(v.questions) : ConformingQuestion(v.questions[i])

ConformingGrade(v) ==
    v.isdict /\ v.correct \in {"true", "false"} /\ v.feedback = "ok"

\* what both statements of C24 share: neither function raises, and a
\* non-empty quiz returned holds only questions of the schema
OracleResultValid ==
    /\ ret.op \in {"generate_quiz", "grade_answer"} => ~ret.raised
    /\ ret.op = "generate_quiz" =>
          \A i \in 1..Len(ret.value.questions) : ConformingQuestion(ret.value.questions[i])

OracleDefault ==
    /\ ret.op = "generate_quiz" => ret.value.questions = <<>>
    /\ ret.op = "grade_answer" =>
          ~ret.value.correct /\ ret.value.feedback = "parse_failure"

\* C24 as stated: whenever the oracle's reply is not valid JSON or fails
\* schema validation, generate_quiz returns the empty question list and
\* grade_answer returns correct = false with a parse-failure feedback, and
\* neither raises; a non-empty quiz returned holds only questions with type
\* mcq or short, a non-empty prompt and answer, and four options if mcq.
C24_OracleAlwaysDefault ==
    /\ OracleResultValid
    /\ (/\ ret.op \in {"generate_quiz", "grade_answer"}
         /\ \/ ret.reply.text # "json"
            \/ ret.op = "generate_quiz" /\ ~ConformingQuiz(ret.reply.value)
            \/ ret.op = "grade_answer" /\ ~ConformingGrade(ret.reply.value)
           => OracleDefault)

\* C24 amended: the safe default is returned whenever neither the reply nor
\* its text from the first "{" to the last "}" is valid JSON, or the parsed
\* value fails schema validation; neither function raises; a non-empty quiz
\* returned holds only questions of the schema.
C24_OracleRecovered ==
    /\ OracleResultValid
    /\ (/\ ret.op \in {"generate_quiz", "grade_answer"}
         /\ \/ ret.reply.text \in {"invalid", "nonstr"}
            \/ ret.op = "generate_quiz" /\ ~ConformingQuiz(ret.reply.value)
            \/ ret.op = "grade_answer" /\ ~ConformingGrade(ret.reply.value)
           => OracleDefault)

\* a reply of valid JSON with a good mcq and an mcq of three options: the
\* quiz returned is empty
C24_Witness ==
    /\ ret.op = "generate_quiz"
    /\ ret.reply.text = "json"
    /\ Len(ret.reply.value.questions) = 2
    /\ ConformingQuestion(ret.reply.value.questions[1])
    /\ ret.reply.value.questions[2] = Question("mcq", "ok", Options(TRUE, 3), "ok")
    /\ ret.value.questions = <<>>

(***************************************************************************)
(* The response-time step of log_attempt (SpecTiming)                      *)
(***************************************************************************)
\* the aggregate of the question of the attempt just logged, before the call
\* (the record of a new question when there was none) and after it
AggBefore(f, a) ==
    IF QIndex(Questions(f), a.question_id) = 0
    THEN NewQRec(a.question_id, a.prompt)
    ELSE Questions(f)[QIndex(Questions(f), a.question_id)]

AggAfter(g, a) == Questions(g)[QIndex(Questions(g), a.question_id)]

\* the response-time step apart from the value of a recomputed average
TimingFrame(f, g) ==
    LET a == Last(Attempts(g))
        old == AggBefore(f, a)
        new == AggAfter(g, a)
    IN  IF a.response_ms # None
        THEN /\ new.last_response_ms = a.response_ms
             /\ old.avg_response_ms = None => new.avg_response_ms = a.response_ms
        ELSE /\ new.last_response_ms = old.last_response_ms
             /\ new.avg_response_ms = old.avg_response_ms

\* response_ms was supplied and the aggregate already had an average
Recomputes(f, g) ==
    /\ Last(Attempts(g)).response_ms # None
    /\ AggBefore(f, Last(Attempts(g))).avg_response_ms # None

\* new average = (prev_avg * prev_n + new_ms) / (prev_n + 1)
ExactMean(f, g) ==
    LET a == Last(Attempts(g))
        old == AggBefore(f, a)
    IN  AggAfter(g, a).avg_response_ms * (old.times_asked + 1)
           = old.avg_response_ms * old.times_asked + a.response_ms

\* new average = that quotient rounded to a nearest integer
RoundedMean(f, g) ==
    LET a == Last(Attempts(g))
        old == AggBefore(f, a)
        n == old.avg_response_ms * old.times_asked + a.response_ms
        d == old.times_asked + 1
        x == AggAfter(g, a).avg_response_ms * d
    IN  2 * (x - n) <= d /\ 2 * (n - x) <= d

\* C25 as stated: when response_ms is supplied and the aggregate already has
\* an average, the new avg_response_ms is (prev_avg * prev_n + new_ms) /
\* (prev_n + 1), prev_n being times_asked before this call's increment; with
\* no prior average the supplied value becomes the average; last_response_ms
\* becomes the supplied value; when response_ms is not supplied both fields
\* are left unchanged.
C25_AvgUpdateExact ==
    [][(ret'.op = "log_attempt" /\ ~ret'.raised)
          => (/\ TimingFrame(file, file')
              /\ Recomputes(file, file') => ExactMean(file, file'))]_vars

\* C25 amended: as stated, with the new average being that quotient rounded
\* to the nearest integer.
C25_AvgUpdateRounded ==
    [][(ret'.op = "log_attempt" /\ ~ret'.raised)
          => (/\ TimingFrame(file, file')
              /\ Recomputes(file, file') => RoundedMean(file, file'))]_vars

\* response times 4, 4, 0 for one question: the average 8/3 is stored as 3
C25_Witness ==
    /\ ret.op = "log_attempt"
    /\ ~ret.raised
    /\ Len(Questions(file)) = 1
    /\ Len(Attempts(file)) = 3
    /\ Attempts(file)[1].response_ms = 4
    /\ Attempts(file)[2].response_ms = 4
    /\ Attempts(file)[3].response_ms = 0
    /\ Questions(file)[1].avg_response_ms = 3
    /\ Questions(file)[1].last_response_ms = 0

(***************************************************************************)
(* SpecRepair: JsonMemory constructed over any file found on disk          *)
(***************************************************************************)
SampleSessions == <<SessionRecord(0, "T1", 100, Details(<<0, 0>>, "all", "medium", "end"))>>

SampleAttempts == <<AttemptEntry(0, "T2", PromptB, "y", FALSE, None)>>

SampleQuestions ==
    <<UpdateQRec(NewQRec(question_id(PromptB), PromptB), 0, "T2", "y", FALSE, None)>>

SlotChoices(sample) == {Absent, Wrong, Slot(<<>>), Slot(sample)}

FilesOnDisk ==
    {Missing, Unparsable, NotDict}
       \cup {Doc(s, a, q) : s \in SlotChoices(SampleSessions),
                            a \in SlotChoices(SampleAttempts),
                            q \in SlotChoices(SampleQuestions)}

LogAttemptRepair == LogAttemptStep({"T1"}, {PromptA, PromptB}, {<<"x", TRUE>>}, {4})

LogSessionRepair == LogSessionStep({"T1"}, {100})

InitRepair ==
    /\ file \in FilesOnDisk
    /\ inst = FALSE
    /\ clock = 0
    /\ ret = Ret("none", FALSE, FALSE)
    /\ FrontIdle

NextRepair ==
    \/ Construct
    \/ LogAttemptRepair
    \/ LogSessionRepair
    \/ GetExcludedPrompts
    \/ GetAdaptiveDifficulty
    \/ GetFrequentlyMissed

SpecRepair == InitRepair /\ [][NextRepair]_vars

\* C5: in every state after JsonMemory has been constructed the persisted
\* document has the three top-level keys with their container types
\* (sessions a list, attempts a list, questions a dict); no log_attempt or
\* log_session removes a key or changes its type.
C5_ShapeKept == inst => WellFormed(file)

\* the ledger found on disk was kept, the question index was replaced by the
\* empty dict, and log_attempt has written since
C5_Witness ==
    /\ inst
    /\ ret.op = "log_attempt"
    /\ ~ret.raised
    /\ Len(Attempts(file)) = 3
    /\ Attempts(file)[1] = SampleAttempts[1]
    /\ QIndex(Questions(file), question_id(PromptB)) = 0

KeyOk(f, slot) == f.kind = "dict" /\ slot.tag = "ok"

Repaired(f, before, after) == after = IF KeyOk(f, before) THEN before ELSE Slot(<<>>)

\* C6: constructing JsonMemory on a missing, empty, unparsable or mis-shaped
\* file never raises and leaves a document of the canonical shape: each of
\* sessions, attempts, questions that is absent or of the wrong type becomes
\* its empty container, each well-formed one is preserved; a well-formed
\* file is not written.
C6_ConstructRepairs ==
    [][ret'.op = "__init__" =>
          /\ ~ret'.raised
          /\ file'.kind = "dict"
          /\ Repaired(file, file.sessions, file'.sessions)
          /\ Repaired(file, file.attempts, file'.attempts)
          /\ Repaired(file, file.questions, file'.questions)
          /\ (WellFormed(file) => file' = file /\ ~ret'.wrote)
          /\ (~WellFormed(file) => ret'.wrote)]_vars

\* a rewrite that kept the sessions and the ledger found on disk and
\* replaced a malformed question index
C6_Witness ==
    /\ ret = Ret("__init__", FALSE, TRUE)
    /\ file = Doc(Slot(SampleSessions), Slot(SampleAttempts), Slot(<<>>))

(***************************************************************************)
(* SpecTiming: attempts with and without a response time                   *)
(***************************************************************************)
TimingMs == {None, 0, 4, BadMs}

LogAttemptTimed == LogAttemptStep({"T1"}, {PromptA, PromptB}, Gradings, TimingMs)

NextTiming ==
    \/ Construct
    \/ LogAttemptTimed
    \/ GetFrequentlyMissed

SpecTiming == Init /\ [][NextTiming]_vars

\* the response times supplied for a question, in ledger order
TimedMs(f, qid) ==
    LET timed == SelectSeq(AttemptsOf(f, qid), LAMBDA a : a.response_ms # None)
    IN  [i \in 1..Len(timed) |-> timed[i].response_ms]

\* avg is the integer nearest to sum / n
IsRoundedMean(avg, sum, n) == 2 * avg * n - 2 * sum <= n /\ 2 * sum - 2 * avg * n <= n

\* C2: after any sequence of log_attempt calls for a question, some with and
\* some without response_ms, avg_response_ms is the arithmetic mean (to the
\* nearest integer) of exactly the supplied values; calls without a timing
\* count neither in the sum nor in the denominator.
C2_AvgIsMeanOfTimed ==
    inst =>
       \A j \in 1..Len(Questions(file)) :
          LET q == Questions(file)[j]
              ms == TimedMs(file, q.qid)
          IN  IF ms = <<>> THEN q.avg_response_ms = None
              ELSE IsRoundedMean(q.avg_response_ms, SumSeq(ms), Len(ms))

(***************************************************************************)
(* SpecCorrupt: another writer damages the file after construction         *)
(***************************************************************************)
\* the file is truncated, replaced by a JSON value that is no object, or one
\* of its keys is dropped or given a value of the wrong type
Corrupt ==
    /\ inst
    /\ file.kind = "dict"
    /\ file' \in {Unparsable, NotDict}
                   \cup {[file EXCEPT !.sessions = x] : x \in {Absent, Wrong}}
                   \cup {[file EXCEPT !.attempts = x] : x \in {Absent, Wrong}}
                   \cup {[file EXCEPT !.questions = x] : x \in {Absent, Wrong}}
    /\ file' # file
    /\ UNCHANGED <<inst, clock, ret, frontVars>>

NextCorrupt ==
    \/ Construct
    \/ LogAttemptRepair
    \/ LogSessionRepair
    \/ GetExcludedPrompts
    \/ GetAdaptiveDifficulty
    \/ GetFrequentlyMissed
    \/ Corrupt

SpecCorrupt == Init /\ [][NextCorrupt]_vars

\* C7: store corruption is never propagated as a failure: when the file has
\* become unreadable or mis-shaped after construction, log_attempt,
\* log_session, get_excluded_prompts, get_adaptive_difficulty and
\* get_frequently_missed on the same instance do not fail their caller.
C7_CorruptionNotPropagated == inst => ~ret.raised

(***************************************************************************)
(* SpecConc: the UI and the CLI call log_attempt and log_session on one    *)
(* file with no lock; _read and _write are the atomic steps                *)
(***************************************************************************)
\* calls made by each front-end
MaxProcCalls == 2

CallsOf(p) == Len(SelectSeq(conc.completed, LAMBDA c : c.proc = p))

\* log_attempt up to data = self._read() and the timestamp
ConcReadAttempt(p) ==
    /\ conc.local[p].pc = "idle"
    /\ CallsOf(p) < MaxProcCalls
    /\ ~ReadRaises(file)
    /\ \E prompt \in {PromptA, PromptB} :
          conc' = [conc EXCEPT !.local[p] =
                      [pc |-> "read", op |-> "log_attempt", data |-> file,
                       ts |-> clock + 1, topic |-> "T1", prompt |-> prompt,
                       student_answer |-> "x", correct |-> TRUE, response_ms |-> 4,
                       score |-> 0]]
    /\ clock' = clock + 1
    /\ UNCHANGED <<file, inst, ret, ui, cli>>

\* a bug: the entry is appended to the ledger as it is on disk at the write,
\* the index is the one updated from the document read earlier
ConcWriteAttempt_LedgerReread(p) ==
    /\ conc.local[p].pc = "read"
    /\ conc.local[p].op = "log_attempt"
    /\ LET l == conc.local[p]
           r == log_attempt(l.data, l.ts, l.topic, l.prompt, l.student_answer,
                            l.correct, l.response_ms)
           now == log_attempt(file, l.ts, l.topic, l.prompt, l.student_answer,
                              l.correct, l.response_ms)
       IN  /\ file' = [r.data EXCEPT !.attempts = now.data.attempts]
           /\ ret' = Ret("log_attempt", r.raised, ~r.raised)
           /\ conc' = [conc EXCEPT
                 !.local[p] = ProcIdle,
                 !.completed = Append(@, [proc |-> p, op |-> "log_attempt",
                                          qid |-> question_id(l.prompt)])]
    /\ UNCHANGED <<inst, clock, ui, cli>>

\* log_attempt from the update of data to self._write(data)
ConcWriteAttempt(p) ==
    /\ conc.local[p].pc = "read"
    /\ conc.local[p].op = "log_attempt"
    /\ LET l == conc.local[p]
           r == log_attempt(l.data, l.ts, l.topic, l.prompt, l.student_answer,
                            l.correct, l.response_ms)
       IN  /\ file' = r.data
           /\ ret' = Ret("log_attempt", r.raised, ~r.raised)
           /\ conc' = [conc EXCEPT
                 !.local[p] = ProcIdle,
                 !.completed = Append(@, [proc |-> p, op |-> "log_attempt",
                                          qid |-> question_id(l.prompt)])]
    /\ UNCHANGED <<inst, clock, ui, cli>>

\* log_session up to data = self._read()
ConcReadSession(p) ==
    /\ conc.local[p].pc = "idle"
    /\ CallsOf(p) < MaxProcCalls
    /\ ~ReadRaises(file)
    /\ conc' = [conc EXCEPT !.local[p] =
                   [ProcIdle EXCEPT !.pc = "read", !.op = "log_session",
                                    !.data = file, !.ts = clock + 1,
                                    !.topic = "T1", !.score = 100]]
    /\ clock' = clock + 1
    /\ UNCHANGED <<file, inst, ret, ui, cli>>

\* log_session from the append to self._write(data)
ConcWriteSession(p) ==
    /\ conc.local[p].pc = "read"
    /\ conc.local[p].op = "log_session"
    /\ LET l == conc.local[p]
           r == log_session(l.data, l.ts, l.topic, l.score,
                            Details(<<0, 0>>, "all", "medium", "immediate"))
       IN  /\ file' = r.data
           /\ ret' = Ret("log_session", r.raised, ~r.raised)
           /\ conc' = [conc EXCEPT
                 !.local[p] = ProcIdle,
                 !.completed = Append(@, [proc |-> p, op |-> "log_session",
                                          qid |-> <<>>])]
    /\ UNCHANGED <<inst, clock, ui, cli>>

\* both front-ends have constructed their JsonMemory on the empty store
InitConc ==
    /\ file = Canonical
    /\ inst = TRUE
    /\ clock = 0
    /\ ret = Ret("__init__", FALSE, TRUE)
    /\ FrontIdle

NextConc ==
    \E p \in Procs :
       \/ ConcReadAttempt(p)
       \/ ConcWriteAttempt(p)
       \/ ConcReadSession(p)
       \/ ConcWriteSession(p)

SpecConc == InitConc /\ [][NextConc]_vars

CompletedAttempts(qid) ==
    Len(SelectSeq(conc.completed, LAMBDA c : c.op = "log_attempt" /\ c.qid = qid))

\* C3: log_attempt behaves as one atomic read-modify-write cycle: when the
\* UI and the CLI interleave their reads and writes, no update is lost; once
\* all calls have completed the ledger holds one record for every completed
\* call and each times_asked counts every completed call for its question.
C3_NoLostUpdate ==
    (\A p \in Procs : conc.local[p].pc = "idle") =>
       /\ Len(Attempts(file))
             = Len(SelectSeq(conc.completed, LAMBDA c : c.op = "log_attempt"))
       /\ \A qid \in {question_id(PromptA), question_id(PromptB)} :
             CompletedAttempts(qid) > 0 =>
                /\ QIndex(Questions(file), qid) # 0
                /\ Questions(file)[QIndex(Questions(file), qid)].times_asked
                      = CompletedAttempts(qid)

(***************************************************************************)
(* SpecFront: the Streamlit UI (app.py) and the CLI (main.py) drive the    *)
(* store, one quiz at a time (SpecConc has the two writing at once).  A UI *)
(* step is one user action with the script rerun it causes.  Answers are   *)
(* "x", response times are 4 ms; the grading oracle decides correct, the   *)
(* generation oracle the quiz.  The session-state keys that the script     *)
(* reads only inside a started quiz (topic, difficulty, feedback_mode) are *)
(* kept at their defaults outside one, as are the per-run counters.        *)
(***************************************************************************)
\* log_attempt and log_session calls explored
MaxFrontCalls == 4

\* the quizzes the generation oracle returns
Quizzes == {<<PromptA>>, <<PromptA, PromptB>>}

\* what retrieval and the generation oracle give a front-end that starts:
\* no context, no question, or a quiz
StartOutcomes ==
    {[kind |-> "no_context", questions |-> <<>>],
     [kind |-> "no_questions", questions |-> <<>>]}
       \cup {[kind |-> "quiz", questions |-> q] : q \in Quizzes}

FeedbackModes == {"immediate", "end"}

FrontTopic == "T1"

\* percent = (100 * correct_count / total) if total else 0.0; the quizzes
\* explored have 1 or 2 questions, for which the quotient is an integer
Percent(correct_count, total) ==
    IF total = 0 THEN 0 ELSE (100 * correct_count) \div total

\* finish_quiz / the end of main: the session record written
FinishSession(f, ts, topic, correct_count, total, difficulty, feedback_mode) ==
    log_session(f, ts, topic, Percent(correct_count, total),
                Details(<<correct_count, total>>, "all", difficulty, feedback_mode))

\* a bug: the summary is shown from the last question on, graded or not
RenderFinishes_FromLast(u) ==
    /\ u.quiz_started
    /\ u.feedback_mode = "immediate"
    /\ u.current_idx >= Len(u.questions) - 1

\* the script run of quiz_tab when no button was pressed: in immediate mode
\* past the last question it calls finish_quiz
RenderFinishes(u) ==
    /\ u.quiz_started
    /\ u.feedback_mode = "immediate"
    /\ u.current_idx >= Len(u.questions)

\* finish_quiz(): JsonMemory(...) and log_session
UIFinishQuiz(u) ==
    /\ clock < MaxFrontCalls
    /\ LET r == FinishSession(ConstructFile(file), clock + 1, u.topic,
                              u.correct_count, Len(u.questions), u.difficulty,
                              u.feedback_mode)
       IN  /\ file' = r.data
           /\ ret' = Ret("log_session", r.raised, ~r.raised)
    /\ clock' = clock + 1
    /\ inst' = TRUE
    /\ ui' = [u EXCEPT !.run_sessions = @ + 1]

\* the rerun after a step that left the session state u
UIRerun(u) ==
    IF u.nav = "Quiz" /\ RenderFinishes(u)
    THEN UIFinishQuiz(u)
    ELSE ui' = u /\ UNCHANGED <<file, inst, clock, ret>>

\* a bug: a quiz without questions is summarised and saved as a session
UIStart_SavesEmptyRun ==
    /\ ui.nav = "Quiz"
    /\ ~ui.quiz_started
    /\ ~ui.busy
    /\ cli.pc = "idle"
    /\ \E out \in StartOutcomes, mode \in FeedbackModes :
          LET f == ConstructFile(file)
              reset == UIReset
          IN  /\ file' = IF out.kind = "no_questions"
                         THEN FinishSession(f, clock + 1, FrontTopic, 0, 0,
                                            get_adaptive_difficulty(f, FrontTopic),
                                            mode).data
                         ELSE f
              /\ ret' = IF out.kind = "no_context"
                        THEN Ret("__init__", FALSE, ConstructWrites(file))
                        ELSE Ret("get_adaptive_difficulty", FALSE, FALSE)
              /\ ui' = IF out.kind # "quiz" THEN reset
                       ELSE [reset EXCEPT
                               !.quiz_started = TRUE,
                               !.topic = FrontTopic,
                               !.feedback_mode = mode,
                               !.difficulty = get_adaptive_difficulty(f, FrontTopic),
                               !.questions = out.questions,
                               !.feedbacks = [j \in 1..Len(out.questions) |-> "none"],
                               !.run_sessions = 0,
                               !.run_attempts = 0]
    /\ inst' = TRUE
    /\ UNCHANGED <<clock, conc, cli>>

\* Start Quiz: reset_quiz_state, start_quiz, rerun
UIStart ==
    /\ ui.nav = "Quiz"
    /\ ~ui.quiz_started
    /\ ~ui.busy
    /\ cli.pc = "idle"
    /\ \E out \in StartOutcomes, mode \in FeedbackModes :
          LET f == ConstructFile(file)
              reset == UIReset
          IN  /\ file' = f
              /\ ret' = IF out.kind = "no_context"
                        THEN Ret("__init__", FALSE, ConstructWrites(file))
                        ELSE Ret("get_adaptive_difficulty", FALSE, FALSE)
              /\ ui' = IF out.kind # "quiz" THEN reset
                       ELSE [reset EXCEPT
                               !.quiz_started = TRUE,
                               !.topic = FrontTopic,
                               !.feedback_mode = mode,
                               !.difficulty = get_adaptive_difficulty(f, FrontTopic),
                               !.questions = out.questions,
                               !.feedbacks = [j \in 1..Len(out.questions) |-> "none"],
                               !.run_sessions = 0,
                               !.run_attempts = 0]
    /\ inst' = TRUE
    /\ UNCHANGED <<clock, conc, cli>>

\* Stop: reset_quiz_state, rerun
UIStop ==
    /\ ui.nav = "Quiz"
    /\ ui.quiz_started
    /\ ~ui.busy
    /\ ui' = UIReset
    /\ UNCHANGED <<file, inst, clock, ret, conc, cli>>

\* immediate mode, Submit: grade_and_log for the current question, rerun
UISubmit ==
    /\ ui.nav = "Quiz"
    /\ ui.quiz_started
    /\ ui.feedback_mode = "immediate"
    /\ ui.current_idx < Len(ui.questions)
    /\ ui.feedbacks[ui.current_idx + 1] = "none"
    /\ ~ui.busy
    /\ clock < MaxFrontCalls
    /\ \E correct \in BOOLEAN :
          LET r == log_attempt(ConstructFile(file), clock + 1, ui.topic,
                               ui.questions[ui.current_idx + 1], "x", correct, 4)
          IN  /\ file' = r.data
              /\ ret' = Ret("log_attempt", r.raised, ~r.raised)
              /\ ui' = [ui EXCEPT
                          !.feedbacks[ui.current_idx + 1] =
                              IF correct THEN "right" ELSE "wrong",
                          !.correct_count = IF correct THEN @ + 1 ELSE @,
                          !.run_attempts = @ + 1]
    /\ clock' = clock + 1
    /\ inst' = TRUE
    /\ UNCHANGED <<conc, cli>>

\* immediate mode, Next under the feedback
UINext ==
    /\ ui.nav = "Quiz"
    /\ ui.quiz_started
    /\ ui.feedback_mode = "immediate"
    /\ ui.current_idx < Len(ui.questions) - 1
    /\ ui.feedbacks[ui.current_idx + 1] # "none"
    /\ ~ui.busy
    /\ ui' = [ui EXCEPT !.current_idx = @ + 1]
    /\ UNCHANGED <<file, inst, clock, ret, conc, cli>>

\* immediate mode, Finish under the last feedback: the rerun calls finish_quiz
UIFinish ==
    /\ ui.nav = "Quiz"
    /\ ui.quiz_started
    /\ ui.feedback_mode = "immediate"
    /\ ui.current_idx = Len(ui.questions) - 1
    /\ ui.feedbacks[ui.current_idx + 1] # "none"
    /\ ~ui.busy
    /\ UIRerun([ui EXCEPT !.current_idx = @ + 1])
    /\ UNCHANGED <<conc, cli>>

\* the navigation radio: the script reruns and renders the chosen tab
UISwitchTab ==
    /\ \E tab \in {"Quiz", "Progress"} :
          /\ tab # ui.nav
          /\ IF tab = "Progress"
             THEN /\ ui' = [ui EXCEPT !.nav = tab]
                  /\ file' = ConstructFile(file)
                  /\ inst' = TRUE
                  /\ ret' = IF Sessions(ConstructFile(file)) = <<>>
                            THEN Ret("__init__", FALSE, ConstructWrites(file))
                            ELSE Ret("get_frequently_missed", FALSE, FALSE)
                  /\ UNCHANGED clock
             ELSE UIRerun([ui EXCEPT !.nav = tab])
    /\ UNCHANGED <<conc, cli>>

\* end mode, Previous
UIPrev ==
    /\ ui.nav = "Quiz"
    /\ ui.quiz_started
    /\ ui.feedback_mode = "end"
    /\ ui.current_idx > 0
    /\ ~ui.busy
    /\ ui' = [ui EXCEPT !.current_idx = @ - 1]
    /\ UNCHANGED <<file, inst, clock, ret, conc, cli>>

\* end mode, Next
UINextEnd ==
    /\ ui.nav = "Quiz"
    /\ ui.quiz_started
    /\ ui.feedback_mode = "end"
    /\ ui.current_idx < Len(ui.questions) - 1
    /\ ~ui.busy
    /\ ui' = [ui EXCEPT !.current_idx = @ + 1]
    /\ UNCHANGED <<file, inst, clock, ret, conc, cli>>

\* the loop of Submit All: grade_and_log for questions j..n, graded cs
RECURSIVE GradeAll(_, _, _, _, _, _)
GradeAll(f, ts, topic, qs, cs, j) ==
    IF j > Len(qs) THEN f
    ELSE GradeAll(log_attempt(ConstructFile(f), ts + j, topic, qs[j], "x", cs[j], 4).data,
                  ts, topic, qs, cs, j + 1)

\* end mode, Submit All on the last question: grade and log every question,
\* finish_quiz, rerun
UISubmitAll ==
    /\ ui.nav = "Quiz"
    /\ ui.quiz_started
    /\ ui.feedback_mode = "end"
    /\ ui.current_idx = Len(ui.questions) - 1
    /\ ~ui.busy
    /\ clock + Len(ui.questions) + 1 <= MaxFrontCalls
    /\ \E cs \in [1..Len(ui.questions) -> BOOLEAN] :
          LET n == Len(ui.questions)
              graded == GradeAll(file, clock, ui.topic, ui.questions, cs, 1)
              count == ui.correct_count + Cardinality({j \in 1..n : cs[j]})
              r == FinishSession(ConstructFile(graded), clock + n + 1, ui.topic,
                                 count, n, ui.difficulty, ui.feedback_mode)
          IN  /\ file' = r.data
              /\ ret' = Ret("log_session", r.raised, ~r.raised)
              /\ ui' = [ui EXCEPT
                          !.feedbacks = [j \in 1..n |-> IF cs[j] THEN "right" ELSE "wrong"],
                          !.correct_count = count,
                          !.run_attempts = @ + n,
                          !.run_sessions = @ + 1]
    /\ clock' = clock + Len(ui.questions) + 1
    /\ inst' = TRUE
    /\ UNCHANGED <<conc, cli>>

\* python -m src.main --topic ...: up to the quiz, or exit(1) before it
CliStart ==
    /\ cli.pc = "idle"
    /\ ~ui.quiz_started
    /\ \E out \in StartOutcomes, mode \in FeedbackModes :
          LET f == ConstructFile(file)
          IN  /\ file' = f
              /\ ret' = IF out.kind = "no_context"
                        THEN Ret("__init__", FALSE, ConstructWrites(file))
                        ELSE Ret("get_adaptive_difficulty", FALSE, FALSE)
              /\ cli' = IF out.kind # "quiz"
                        THEN CliIdle
                        ELSE [pc |-> "quiz", questions |-> out.questions, i |-> 0,
                              correct_count |-> 0, feedback |-> mode,
                              topic |-> FrontTopic,
                              difficulty |-> get_adaptive_difficulty(f, FrontTopic),
                              run_sessions |-> 0]
    /\ inst' = TRUE
    /\ UNCHANGED <<clock, conc, ui>>

\* one turn of the grading loop: grade_answer and memory.log_attempt
CliGrade ==
    /\ cli.pc = "quiz"
    /\ cli.i < Len(cli.questions)
    /\ clock < MaxFrontCalls
    /\ \E correct \in BOOLEAN :
          LET r == log_attempt(file, clock + 1, cli.topic, cli.questions[cli.i + 1],
                               "x", correct, 4)
          IN  /\ file' = r.data
              /\ ret' = Ret("log_attempt", r.raised, ~r.raised)
              /\ cli' = [cli EXCEPT !.i = @ + 1,
                                    !.correct_count = IF correct THEN @ + 1 ELSE @]
    /\ clock' = clock + 1
    /\ UNCHANGED <<inst, conc, ui>>

\* after the loop: the score, memory.log_session, and the process ends
CliFinish ==
    /\ cli.pc = "quiz"
    /\ cli.i = Len(cli.questions)
    /\ clock < MaxFrontCalls
    /\ LET r == FinishSession(file, clock + 1, cli.topic, cli.correct_count,
                              Len(cli.questions), cli.difficulty, cli.feedback)
       IN  /\ file' = r.data
           /\ ret' = Ret("log_session", r.raised, ~r.raised)
    /\ cli' = [cli EXCEPT !.pc = "idle", !.run_sessions = @ + 1]
    /\ clock' = clock + 1
    /\ UNCHANGED <<inst, conc, ui>>

NextFront ==
    \/ UIStart
    \/ UIStop
    \/ UISubmit
    \/ UINext
    \/ UIFinish
    \/ UISwitchTab
    \/ UIPrev
    \/ UINextEnd
    \/ UISubmitAll
    \/ CliStart
    \/ CliGrade
    \/ CliFinish

SpecFront == Init /\ [][NextFront]_vars

\* C8: exactly one session record is appended per completed quiz run, in both
\* front-ends and both feedback modes: no further user action or re-render
\* (the quiz tab rendered again after Finish, Submit All pressed again,
\* switching tabs) appends a second session record for the run.
C8_OneSessionPerRun == ui.run_sessions <= 1 /\ cli.run_sessions <= 1

\* C9: every session record written by the front-ends carries a score between
\* 0 and 100: when log_session is called, correct_count is at most the number
\* of questions of the quiz.
C9_ScoreIsPercentage ==
    \A k \in 1..Len(Sessions(file)) :
       LET s == Sessions(file)[k]
       IN  /\ 0 <= s.score
           /\ s.score <= 100
           /\ s.details.raw[1] <= s.details.raw[2]

\* the last k records of the ledger hold an attempt for every question of qs
Covered(f, qs, k) ==
    LET n == Len(Attempts(f))
    IN  /\ k <= n
        /\ \A j \in 1..Len(qs) :
              \E m \in (n - k + 1)..n :
                 /\ Attempts(f)[m].question_id = question_id(qs[j])
                 /\ Attempts(f)[m].topic = FrontTopic

\* C26: in the CLI and in the UI (both feedback modes) the session record of
\* a quiz run is appended only after an attempt record has been logged for
\* every question of that quiz: whenever a step appends a session record,
\* the attempts the running front-end logged in that run, which are the last
\* records of the ledger, cover every question of its quiz.
C26_SessionAfterAllAttempts ==
    [][Len(Sessions(file')) > Len(Sessions(file)) =>
          \/ /\ ui'.run_sessions > ui.run_sessions
             /\ Covered(file', ui'.questions, ui'.run_attempts)
          \/ /\ cli'.run_sessions > cli.run_sessions
             /\ Covered(file', cli'.questions, cli'.i)]_vars

\* a two-question immediate-mode UI run has logged both attempts and then,
\* after Finish, its session record
C26_Witness ==
    /\ ret.op = "log_session"
    /\ ui.quiz_started
    /\ ui.feedback_mode = "immediate"
    /\ Len(ui.questions) = 2
    /\ ui.run_sessions = 1
    /\ Len(Sessions(file)) = 1
    /\ Len(Attempts(file)) = 2
    /\ Attempts(file)[1].question_id # Attempts(file)[2].question_id

\* C27: when log_attempt and log_session cycles of the two front-ends
\* interleave without a lock, every document ever persisted is internally
\* consistent: each aggregate's times_asked is the number of attempt records
\* with its question id in that same document.
C27_PersistedDocConsistent ==
    \A j \in 1..Len(Questions(file)) :
       LET q == Questions(file)[j]
       IN  q.times_asked
              = Cardinality({i \in 1..Len(Attempts(file)) :
                                Attempts(file)[i].question_id = q.qid})

\* both front-ends logged an attempt for the same question from the same
\* read: one update is lost, and the document written last counts one
C27_Witness ==
    /\ \A p \in Procs : conc.local[p].pc = "idle"
    /\ Len(conc.completed) = 2
    /\ conc.completed[1].op = "log_attempt"
    /\ conc.completed[2].op = "log_attempt"
    /\ conc.completed[1].qid = conc.completed[2].qid
    /\ conc.completed[1].proc # conc.completed[2].proc
    /\ Len(Attempts(file)) = 1
    /\ Len(Questions(file)) = 1
    /\ Questions(file)[1].times_asked = 1

\* C28: within one UI quiz run each question is graded and logged at most
\* once: a run with n questions appends at most n attempt records, and
\* correct_count never exceeds the number of questions with correct feedback.
C28_GradedAtMostOnce ==
    ui.quiz_started =>
       /\ ui.run_attempts <= Len(ui.questions)
       /\ ui.correct_count
             <= Cardinality({j \in 1..Len(ui.questions) : ui.feedbacks[j] = "right"})

\* C29: a quiz that cannot start writes nothing: when retrieval returns no
\* context or the generation oracle yields no questions, the CLI exits and
\* the UI stays in the not-started state (a started quiz has questions), and
\* no attempt record and no session record is appended to the store.
C29_FailedStartAppendsNothing ==
    /\ [](/\ ui.quiz_started => ui.questions # <<>>
          /\ cli.pc = "quiz" => cli.questions # <<>>)
    /\ [][(/\ ret'.op \in {"__init__", "get_adaptive_difficulty"}
           /\ ~ui'.quiz_started
           /\ cli'.pc = "idle")
             => /\ Attempts(file') = Attempts(file)
                /\ Sessions(file') = Sessions(file)]_vars

\* a start that got no questions, over a store that already holds a run:
\* the front-ends are idle and the store holds that run's records only
C29_Witness ==
    /\ ret.op = "get_adaptive_difficulty"
    /\ ~ui.quiz_started
    /\ cli.pc = "idle"
    /\ Len(Attempts(file)) = 1
    /\ Len(Sessions(file)) = 1

====
